---- MODULE Spec2Model ----
(***************************************************************************)
(* Model of scripts/schema_inspector.py: the directory scan, the per-file  *)
(* load/summarize loop of main with its try/except, infer_role, the        *)
(* modeling-candidate dictionary and its sorted rendering, and the exit    *)
(* codes.                                                                  *)
(*                                                                         *)
(* Text is a sequence of code points, so that str.lower(), substring       *)
(* tests, suffix extraction and Python's lexicographic str / Path          *)
(* comparison are computed, not assumed.                                   *)
(***************************************************************************)
EXTENDS Integers, Sequences, FiniteSets, TLC

VARIABLES
    dir_exists,          \* args.data_dir.exists()
    fs,                  \* the data directory: relative path -> entry
    args,                \* parsed command line: target, output, json_output
    pc,                  \* position inside main
    table_paths,         \* list(scan_data_dir(args.data_dir))
    idx,                 \* position of the for loop over table_paths
    table_summaries,     \* List[TableSummary]
    modeling_candidates, \* Dict[str, Dict[str, float]]
    stderr,              \* lines printed with file=sys.stderr
    stdout,              \* what print(markdown_output) wrote
    output_file,         \* what args.output.write_text wrote
    json_file,           \* what args.json_output.write_text wrote
    exit_code,           \* the value main returns (2: parser.error)
    pandas_major         \* major version of the installed pandas

vars == <<dir_exists, fs, args, pc, table_paths, idx, table_summaries,
          modeling_candidates, stderr, stdout, output_file, json_file,
          exit_code, pandas_major>>

-----------------------------------------------------------------------------
(* Bounds of the model *)

\* most entries in the data directory (directory-level specification)
MaxFiles == 2
\* most rows of the one-column tables of the column-level specification
MaxRows == 3

-----------------------------------------------------------------------------
(* Text as code points *)

LowerLetters == <<"a","b","c","d","e","f","g","h","i","j","k","l","m",
                  "n","o","p","q","r","s","t","u","v","w","x","y","z">>
UpperLetters == <<"A","B","C","D","E","F","G","H","I","J","K","L","M",
                  "N","O","P","Q","R","S","T","U","V","W","X","Y","Z">>

\* ord(c) for the characters the model uses
Ord(c) ==
    IF \E i \in 1..26 : LowerLetters[i] = c
    THEN 96 + (CHOOSE i \in 1..26 : LowerLetters[i] = c)
    ELSE IF \E i \in 1..26 : UpperLetters[i] = c
    THEN 64 + (CHOOSE i \in 1..26 : UpperLetters[i] = c)
    ELSE CASE c = "." -> 46
           [] c = "/" -> 47
           [] c = ":" -> 58
           [] c = "_" -> 95

\* a str literal, written as a tuple of its characters
Str(t) == [i \in 1..Len(t) |-> Ord(t[i])]

\* str.lower() on ASCII text
Lower(s) == [i \in 1..Len(s) |-> IF s[i] >= 65 /\ s[i] <= 90 THEN s[i] + 32 ELSE s[i]]

\* `sub in s`
Contains(s, sub) ==
    \E i \in 1..(Len(s) - Len(sub) + 1) : SubSeq(s, i, i + Len(sub) - 1) = sub

\* s.endswith(sub)
EndsWith(s, sub) ==
    /\ Len(s) >= Len(sub)
    /\ SubSeq(s, Len(s) - Len(sub) + 1, Len(s)) = sub

\* a < b for two str (code point by code point, a proper prefix is smaller)
RECURSIVE StrLess(_, _)
StrLess(a, b) ==
    IF Len(b) = 0 THEN FALSE
    ELSE IF Len(a) = 0 THEN TRUE
    ELSE IF a[1] # b[1] THEN a[1] < b[1]
    ELSE StrLess(Tail(a), Tail(b))

\* p < q for two Path objects: their parts compared as lists of str
RECURSIVE PathLess(_, _)
PathLess(p, q) ==
    IF Len(q) = 0 THEN FALSE
    ELSE IF Len(p) = 0 THEN TRUE
    ELSE IF p[1] # q[1] THEN StrLess(p[1], q[1])
    ELSE PathLess(Tail(p), Tail(q))

\* Path.name: the last part
PathName(p) == p[Len(p)]

\* Path.suffix: from the last dot of the name, unless the dot is the first
\* or the last character
Suffix(p) ==
    LET name == PathName(p)
        dots == {i \in 1..Len(name) : name[i] = 46}
    IN  IF dots = {} THEN <<>>
        ELSE LET i == CHOOSE d \in dots : \A e \in dots : e <= d
             IN  IF i > 1 /\ i < Len(name) THEN SubSeq(name, i, Len(name)) ELSE <<>>

\* the str literals of the source
s_csv     == Str(<<".","c","s","v">>)
s_id      == Str(<<"i","d">>)
s_uuid    == Str(<<"u","u","i","d">>)
s_cd      == Str(<<"_","c","d">>)
s_percent == Str(<<"p","e","r","c","e","n","t">>)
s_rate    == Str(<<"r","a","t","e">>)
s_sep     == Str(<<":",":">>)

SUPPORTED_EXTENSIONS ==
    { s_csv, Str(<<".","p","a","r","q","u","e","t">>),
      Str(<<".","f","e","a","t","h","e","r">>), Str(<<".","x","l","s","x">>),
      Str(<<".","x","l","s">>) }

-----------------------------------------------------------------------------
(* DataFrames *)

\* A cell is NA (NaN / None / NaT) or one of three distinct values.
NA == -1
Values == {0, 1, 2}
Cells == Values \cup {NA}

\* dtypes of a pandas Series.  "category[bool]" is a categorical column whose
\* categories are booleans; str() of its dtype is "category" as well.
Dtypes == {"int64", "float64", "bool", "datetime64[ns]", "object",
           "category", "category[bool]", "timedelta64[ns]"}

\* str(series.dtype)
DtypeStr(d) == IF d = "category[bool]" THEN "category" ELSE d

\* the cells a Series of the dtype can hold: numpy int64 and bool have no
\* missing value, a bool is one of two values
CellsOf(d) ==
    CASE d = "int64" -> Values
      [] d \in {"bool", "category[bool]"} -> IF d = "bool" THEN {0, 1} ELSE {0, 1, NA}
      [] OTHER -> Cells

\* pd.api.types.is_datetime64_any_dtype
is_datetime64_any_dtype(column) == column.dtype = "datetime64[ns]"

\* pd.api.types.is_numeric_dtype: np.number and np.bool_
is_numeric_dtype(column) == column.dtype \in {"int64", "float64", "bool"}

\* pd.api.types.is_bool_dtype: np.bool_, or a categorical of booleans
is_bool_dtype(column) == column.dtype \in {"bool", "category[bool]"}

\* pd.api.types.is_string_dtype: every object column before pandas 2, from
\* pandas 2 on an object column only if each of its elements is a str
is_string_dtype(column, major) ==
    /\ column.dtype = "object"
    /\ \/ major < 2
       \/ \A i \in 1..Len(column.values) : column.values[i] # NA

\* pd.api.types.is_categorical_dtype
is_categorical_dtype(column) == column.dtype \in {"category", "category[bool]"}

\* Series.dropna()
RECURSIVE dropna(_)
dropna(values) ==
    IF Len(values) = 0 THEN <<>>
    ELSE IF values[1] = NA THEN dropna(Tail(values))
    ELSE <<values[1]>> \o dropna(Tail(values))

\* Series.nunique(dropna=...): NA counts as one value when it is kept
nunique(values, drop) ==
    LET kept == IF drop THEN dropna(values) ELSE values
    IN  Cardinality({kept[i] : i \in 1..Len(kept)})

\* Series.unique(): the distinct values in the order they first occur
RECURSIVE unique(_)
unique(values) ==
    IF Len(values) = 0 THEN <<>>
    ELSE LET front == unique(SubSeq(values, 1, Len(values) - 1))
             last  == values[Len(values)]
         IN  IF \E i \in 1..Len(front) : front[i] = last
             THEN front
             ELSE Append(front, last)

\* seq[:n]
Take(seq, n) == SubSeq(seq, 1, IF Len(seq) < n THEN Len(seq) ELSE n)

-----------------------------------------------------------------------------
(* infer_role *)

\* the role and note literals of the source, written without their accents
\* ("numérica", "categórica", "binária", "possível identificador",
\*  "coluna constante", "alta cardinalidade", "verificar escala percentual")
ROLE_NUMERIC     == "numerica"
ROLE_CATEGORICAL == "categorica"
ROLE_BINARY      == "binaria"
ROLE_UNKNOWN     == "desconhecido"
NOTE_IDENTIFIER  == "possivel identificador"
NOTE_CONSTANT    == "coluna constante"
NOTE_BINARY      == "binaria"
NOTE_HIGH_CARD   == "alta cardinalidade"
NOTE_PERCENT     == "verificar escala percentual"

\* --target: not given (None), or a string
NoTarget == [given |-> FALSE, name |-> <<>>]
Target(name) == [given |-> TRUE, name |-> name]

\* the truth value of an Optional[str]: None and "" are false
Truthy(target) == target.given /\ Len(target.name) > 0

\* the name test of the identifier branch
LooksLikeId(lowered) ==
    \/ Contains(lowered, s_id)
    \/ Contains(lowered, s_uuid)
    \/ EndsWith(lowered, s_cd)

\* the numeric notes with the two distinct-count tests merged into "<= 2"
NumericNotes_ConstantUpToTwo(column, lowered) ==
    LET unique_values == nunique(column.values, TRUE)
    IN  (IF unique_values <= 2 THEN <<NOTE_CONSTANT>> ELSE <<>>)
        \o (IF unique_values = 2 THEN <<NOTE_BINARY>> ELSE <<>>)
        \o (IF \/ Contains(lowered, s_percent)
               \/ Contains(lowered, s_rate)
            THEN <<NOTE_PERCENT>> ELSE <<>>)

\* the notes of the numeric branch, in the order they are appended
NumericNotes(column, lowered) ==
    LET unique_values == nunique(column.values, TRUE)
    IN  (IF unique_values <= 1 THEN <<NOTE_CONSTANT>> ELSE <<>>)
        \o (IF unique_values = 2 THEN <<NOTE_BINARY>> ELSE <<>>)
        \o (IF \/ Contains(lowered, s_percent)
               \/ Contains(lowered, s_rate)
            THEN <<NOTE_PERCENT>> ELSE <<>>)

\* max(len(column), 1)
Max(a, b) == IF a >= b THEN a ELSE b

\* unique_ratio > 0.9, with unique_ratio = nunique(dropna=False) / max(len, 1)
HighCardinality(column) ==
    10 * nunique(column.values, FALSE) > 9 * Max(Len(column.values), 1)

\* the branches after the target test, in the order of the source
InferRoleByNameAndDtype(column, lowered, major) ==
    IF LooksLikeId(lowered)
    THEN [role |-> "id", notes |-> <<NOTE_IDENTIFIER>>]
    ELSE IF is_datetime64_any_dtype(column)
    THEN [role |-> "datetime", notes |-> <<>>]
    ELSE IF is_numeric_dtype(column)
    THEN [role |-> ROLE_NUMERIC, notes |-> NumericNotes(column, lowered)]
    ELSE IF is_bool_dtype(column)
    THEN [role |-> ROLE_BINARY, notes |-> <<>>]
    ELSE IF is_string_dtype(column, major) \/ is_categorical_dtype(column)
    THEN [role |-> ROLE_CATEGORICAL,
          notes |-> IF HighCardinality(column) THEN <<NOTE_HIGH_CARD>> ELSE <<>>]
    ELSE [role |-> ROLE_UNKNOWN, notes |-> <<>>]

\* infer_role with the identifier test moved ahead of the target test
infer_role_IdentifierFirst(column, name, target, major) ==
    IF LooksLikeId(Lower(name))
    THEN [role |-> "id", notes |-> <<NOTE_IDENTIFIER>>]
    ELSE IF Truthy(target) /\ name = target.name
    THEN [role |-> "target", notes |-> <<>>]
    ELSE InferRoleByNameAndDtype(column, Lower(name), major)

infer_role(column, name, target, major) ==
    IF Truthy(target) /\ name = target.name
    THEN [role |-> "target", notes |-> <<>>]
    ELSE InferRoleByNameAndDtype(column, Lower(name), major)

-----------------------------------------------------------------------------
(* summarize_table *)

\* a percentage kept exact: num / den, den > 0
Pct(num, den) == [num |-> num, den |-> den]
PctLess(a, b) == a.num * b.den < b.num * a.den
PctAtLeast(a, n) == a.num >= n * a.den

\* the coverage without the test for an empty series: 0 / 0
NonNullPct_NoEmptyTest(values) ==
    Pct(100 * Len(dropna(values)), Len(values))

\* series.notna().mean() * 100 if len(series) else 0.0
NonNullPct(values) ==
    IF Len(values) > 0
    THEN Pct(100 * Len(dropna(values)), Len(values))
    ELSE Pct(0, 1)

\* [str(val) for val in series.dropna().unique()[:3]]; the text of a value
\* depends on its dtype ("1", "1.0", "True", ...)
ExampleValues(column) ==
    LET firsts == Take(unique(dropna(column.values)), 3)
    IN  [i \in 1..Len(firsts) |-> <<column.dtype, firsts[i]>>]

\* the ColumnSummary of one column of the frame
SummarizeColumn(column, target, major) ==
    LET inferred == infer_role(column, column.name, target, major)
    IN  [name           |-> column.name,
         dtype          |-> DtypeStr(column.dtype),
         role           |-> inferred.role,
         non_null_pct   |-> NonNullPct(column.values),
         unique_values  |-> IF Len(column.values) > 0
                            THEN nunique(column.values, FALSE) ELSE 0,
         example_values |-> ExampleValues(column),
         notes          |-> inferred.notes]

\* the TableSummary of a frame that load_table returned
summarize_table(path, df, target, major) ==
    [file_path        |-> path,
     row_count        |-> df.rows,
     column_summaries |-> [i \in 1..Len(df.columns) |->
                              SummarizeColumn(df.columns[i], target, major)]]

-----------------------------------------------------------------------------
(* Files and load_table *)

\* What a CSV column holds as text; pd.read_csv infers the dtype from it.
CsvKinds == {"integer", "decimal", "boolean", "date", "text"}

\* the cells a CSV column of the kind can hold
CsvCellsOf(kind) == IF kind = "boolean" THEN {0, 1, NA} ELSE Cells

\* pd.read_csv as it would infer with its ISO dates parsed
CsvDtype_ParsesDates(kind, values) ==
    LET missing == \E i \in 1..Len(values) : values[i] = NA
    IN  IF Len(values) = 0 THEN "object"
        ELSE IF Len(dropna(values)) = 0 THEN "float64"
        ELSE CASE kind = "integer" -> IF missing THEN "float64" ELSE "int64"
               [] kind = "decimal" -> "float64"
               [] kind = "boolean" -> IF missing THEN "object" ELSE "bool"
               [] kind = "date"    -> "datetime64[ns]"
               [] OTHER            -> "object"

\* The dtype pd.read_csv gives a column (no parse_dates, no dtype argument):
\* object without rows, float64 when every cell is empty, int64 and bool only
\* without empty cells, and text, ISO dates included, stays object.
CsvDtype(kind, values) ==
    LET missing == \E i \in 1..Len(values) : values[i] = NA
    IN  IF Len(values) = 0 THEN "object"
        ELSE IF Len(dropna(values)) = 0 THEN "float64"
        ELSE CASE kind = "integer" -> IF missing THEN "float64" ELSE "int64"
               [] kind = "decimal" -> "float64"
               [] kind = "boolean" -> IF missing THEN "object" ELSE "bool"
               [] OTHER            -> "object"

\* Entries of the data directory.  A readable file holds the rows the reader
\* returns for this run (--sample-rows applied where the reader honours it);
\* its columns carry a CSV kind in a .csv file and a dtype in the typed formats.
Directory == [kind |-> "dir", ok |-> FALSE, err |-> "", rows |-> 0, columns |-> <<>>]
Unreadable(e) == [kind |-> "file", ok |-> FALSE, err |-> e, rows |-> 0, columns |-> <<>>]
Frame(rows, columns) ==
    [kind |-> "file", ok |-> TRUE, err |-> "", rows |-> rows, columns |-> columns]
Column(name, type, values) == [name |-> name, dtype |-> type, values |-> values]

\* pd.read_csv: the frame with its dtypes inferred
read_csv(entry) ==
    [entry EXCEPT !.columns =
        [i \in 1..Len(entry.columns) |->
            [entry.columns[i] EXCEPT
                !.dtype = CsvDtype(entry.columns[i].dtype, entry.columns[i].values)]]]

\* load_table: the frame, or the exception raised
load_table(path, entry) ==
    LET suffix == Lower(Suffix(path))
    IN  IF suffix \in SUPPORTED_EXTENSIONS
        THEN IF entry.ok
             THEN [raised |-> FALSE, exc |-> "",
                   df |-> IF suffix = s_csv
                          THEN read_csv(entry) ELSE entry]
             ELSE [raised |-> TRUE, exc |-> entry.err, df |-> entry]
        ELSE [raised |-> TRUE, exc |-> "Unsupported file type", df |-> entry]

\* sorted(paths) for a set of Path objects
RECURSIVE SortedPaths(_)
SortedPaths(paths) ==
    IF paths = {} THEN <<>>
    ELSE LET least == CHOOSE p \in paths : \A q \in paths : ~PathLess(q, p)
         IN  <<least>> \o SortedPaths(paths \ {least})

\* the scan without its extension test: every regular file goes to load_table
IsTableFile_AnyExtension(files, path) ==
    files[path].kind = "file"

\* the test of scan_data_dir on one globbed path
IsTableFile(files, path) ==
    /\ files[path].kind = "file"
    /\ Lower(Suffix(path)) \in SUPPORTED_EXTENSIONS

\* list(scan_data_dir(data_dir))
scan_data_dir(files) ==
    SortedPaths({p \in DOMAIN files : IsTableFile(files, p)})

-----------------------------------------------------------------------------
(* main: the modeling candidates and the report *)

ModelingRoles == {ROLE_NUMERIC, ROLE_CATEGORICAL, ROLE_BINARY}

\* the test of the candidate loop: role in {...} and col.non_null_pct >= 60
Qualifies(col) == col.role \in ModelingRoles /\ PctAtLeast(col.non_null_pct, 60)

\* f"{table_summary.file_path.name}::{col.name}"
CandidateKey(table_summary, col) ==
    PathName(table_summary.file_path) \o s_sep \o col.name

CandidateInfo(col) ==
    [non_null_pct  |-> col.non_null_pct,
     unique_values |-> col.unique_values,
     role          |-> col.role]

\* the (key, info) assignments of the two nested loops, in execution order
RECURSIVE Assignments(_)
Assignments(summaries) ==
    IF Len(summaries) = 0 THEN <<>>
    ELSE LET ts   == summaries[1]
             cols == SelectSeq(ts.column_summaries, Qualifies)
         IN  [i \in 1..Len(cols) |->
                 [key |-> CandidateKey(ts, cols[i]), info |-> CandidateInfo(cols[i])]]
             \o Assignments(Tail(summaries))

\* modeling_candidates[key] = info for each assignment: a dict keeps the
\* last value assigned to a key
BuildCandidates(summaries) ==
    LET assigned == Assignments(summaries)
        last(k)  == CHOOSE i \in 1..Len(assigned) :
                       /\ assigned[i].key = k
                       /\ \A j \in 1..Len(assigned) : assigned[j].key = k => j <= i
    IN  [k \in {assigned[i].key : i \in 1..Len(assigned)} |-> assigned[last(k)].info]

\* the sort key without its minus sign: ascending coverage
SortsBefore_AscendingCoverage(candidates, a, b) ==
    \/ PctLess(candidates[a].non_null_pct, candidates[b].non_null_pct)
    \/ /\ ~PctLess(candidates[b].non_null_pct, candidates[a].non_null_pct)
       /\ StrLess(a, b)

\* the sort key (-non_null_pct, name) of one item before that of another
SortsBefore(candidates, a, b) ==
    \/ PctLess(candidates[b].non_null_pct, candidates[a].non_null_pct)
    \/ /\ ~PctLess(candidates[a].non_null_pct, candidates[b].non_null_pct)
       /\ StrLess(a, b)

\* sorted(modeling_candidates.items(), key=...): the keys in sorted order
RECURSIVE SortedKeys(_, _)
SortedKeys(candidates, keys) ==
    IF keys = {} THEN <<>>
    ELSE LET first == CHOOSE k \in keys :
                         \A j \in keys \ {k} : ~SortsBefore(candidates, j, k)
         IN  <<first>> \o SortedKeys(candidates, keys \ {first})

\* the rows of the candidate table, one per dict item, in sorted order
CandidateRows(candidates) ==
    LET keys == SortedKeys(candidates, DOMAIN candidates)
    IN  [i \in 1..Len(keys) |->
            [name          |-> keys[i],
             role          |-> candidates[keys[i]].role,
             non_null_pct  |-> candidates[keys[i]].non_null_pct,
             unique_values |-> candidates[keys[i]].unique_values]]

\* TableSummary.to_markdown: the heading and one row per column
to_markdown(table_summary) ==
    [name      |-> PathName(table_summary.file_path),
     row_count |-> table_summary.row_count,
     rows      |-> table_summary.column_summaries]

\* markdown_output: the per-file tables, then the candidate table
MarkdownOutput(summaries, candidates) ==
    [tables     |-> [i \in 1..Len(summaries) |-> to_markdown(summaries[i])],
     candidates |-> CandidateRows(candidates)]

\* json_payload
JsonPayload(summaries) ==
    [i \in 1..Len(summaries) |->
        [file_path |-> summaries[i].file_path,
         row_count |-> summaries[i].row_count,
         columns   |-> summaries[i].column_summaries]]

\* the lines main prints to sys.stderr
NoFilesWarning     == [text |-> "Nenhum arquivo tabular suportado foi encontrado.",
                       path |-> <<>>, exc |-> ""]
NoSummariesWarning == [text |-> "Nao foi possivel gerar resumo para nenhum arquivo.",
                       path |-> <<>>, exc |-> ""]
LoadWarning(path, exc) == [text |-> "Falha ao ler", path |-> path, exc |-> exc]
MissingDirError    == [text |-> "Data directory does not exist.",
                       path |-> <<>>, exc |-> ""]

-----------------------------------------------------------------------------
(* main, step by step *)

\* parser.error: the data directory does not exist
DataDirMissing ==
    /\ pc = "start"
    /\ ~dir_exists
    /\ stderr' = Append(stderr, MissingDirError)
    /\ exit_code' = 2
    /\ pc' = "done"
    /\ UNCHANGED <<dir_exists, fs, args, table_paths, idx, table_summaries,
                   modeling_candidates, stdout, output_file, json_file, pandas_major>>

\* the scan finds no supported file: warning, return 1
NoTablesFound ==
    /\ pc = "start"
    /\ dir_exists
    /\ scan_data_dir(fs) = <<>>
    /\ stderr' = Append(stderr, NoFilesWarning)
    /\ exit_code' = 1
    /\ pc' = "done"
    /\ UNCHANGED <<dir_exists, fs, args, table_paths, idx, table_summaries,
                   modeling_candidates, stdout, output_file, json_file, pandas_major>>

\* table_paths = list(scan_data_dir(args.data_dir)), not empty
ScanDataDir ==
    /\ pc = "start"
    /\ dir_exists
    /\ scan_data_dir(fs) # <<>>
    /\ table_paths' = scan_data_dir(fs)
    /\ idx' = 1
    /\ pc' = "loop"
    /\ UNCHANGED <<dir_exists, fs, args, table_summaries, modeling_candidates,
                   stderr, stdout, output_file, json_file, exit_code, pandas_major>>

\* one pass of the loop whose try block succeeds
SummarizeOk ==
    /\ pc = "loop"
    /\ idx <= Len(table_paths)
    /\ LET path   == table_paths[idx]
           loaded == load_table(path, fs[path])
       IN  /\ ~loaded.raised
           /\ table_summaries' =
                 Append(table_summaries,
                        summarize_table(path, loaded.df, args.target, pandas_major))
    /\ idx' = idx + 1
    /\ UNCHANGED <<dir_exists, fs, args, pc, table_paths, modeling_candidates,
                   stderr, stdout, output_file, json_file, exit_code, pandas_major>>

\* the loop without its try/except: the first exception ends the loop
SummarizeFailed_StopsLoop ==
    /\ pc = "loop"
    /\ idx <= Len(table_paths)
    /\ LET path   == table_paths[idx]
           loaded == load_table(path, fs[path])
       IN  /\ loaded.raised
           /\ stderr' = Append(stderr, LoadWarning(path, loaded.exc))
    /\ idx' = Len(table_paths) + 1
    /\ UNCHANGED <<dir_exists, fs, args, pc, table_paths, table_summaries,
                   modeling_candidates, stdout, output_file, json_file, exit_code,
                   pandas_major>>

\* one pass of the loop whose try block raises: the except prints and goes on
SummarizeFailed ==
    /\ pc = "loop"
    /\ idx <= Len(table_paths)
    /\ LET path   == table_paths[idx]
           loaded == load_table(path, fs[path])
       IN  /\ loaded.raised
           /\ stderr' = Append(stderr, LoadWarning(path, loaded.exc))
    /\ idx' = idx + 1
    /\ UNCHANGED <<dir_exists, fs, args, pc, table_paths, table_summaries,
                   modeling_candidates, stdout, output_file, json_file, exit_code, pandas_major>>

\* main without the test for an empty table_summaries: an empty report, return 0
NoSummaries_ReportsAnyway ==
    /\ pc = "loop"
    /\ idx > Len(table_paths)
    /\ table_summaries = <<>>
    /\ stdout' = Append(stdout, MarkdownOutput(table_summaries, <<>>))
    /\ output_file' = IF args.output
                      THEN <<MarkdownOutput(table_summaries, <<>>)>> ELSE output_file
    /\ json_file' = IF args.json_output THEN <<JsonPayload(table_summaries)>> ELSE json_file
    /\ exit_code' = 0
    /\ pc' = "done"
    /\ UNCHANGED <<dir_exists, fs, args, table_paths, idx, table_summaries,
                   modeling_candidates, stderr, pandas_major>>

\* after the loop, nothing summarized: warning, return 1
NoSummaries ==
    /\ pc = "loop"
    /\ idx > Len(table_paths)
    /\ table_summaries = <<>>
    /\ stderr' = Append(stderr, NoSummariesWarning)
    /\ exit_code' = 1
    /\ pc' = "done"
    /\ UNCHANGED <<dir_exists, fs, args, table_paths, idx, table_summaries,
                   modeling_candidates, stdout, output_file, json_file, pandas_major>>

\* after the loop: build the candidates, print the report, write the optional
\* files, return 0
Report ==
    /\ pc = "loop"
    /\ idx > Len(table_paths)
    /\ table_summaries # <<>>
    /\ LET candidates == BuildCandidates(table_summaries)
           markdown   == MarkdownOutput(table_summaries, candidates)
       IN  /\ modeling_candidates' = candidates
           /\ stdout' = Append(stdout, markdown)
           /\ output_file' = IF args.output THEN <<markdown>> ELSE output_file
           /\ json_file' = IF args.json_output
                           THEN <<JsonPayload(table_summaries)>> ELSE json_file
    /\ exit_code' = 0
    /\ pc' = "done"
    /\ UNCHANGED <<dir_exists, fs, args, table_paths, idx, table_summaries, stderr,
                   pandas_major>>

Next ==
    \/ DataDirMissing
    \/ NoTablesFound
    \/ ScanDataDir
    \/ SummarizeOk
    \/ SummarizeFailed
    \/ NoSummaries
    \/ Report

-----------------------------------------------------------------------------
(* Initial states *)

\* exit_code before main has returned
NotReturned == -1

PandasMajors == {1, 2}

\* column names
n_user_id     == Str(<<"u","s","e","r","_","i","d">>)
n_ID          == Str(<<"I","D">>)
n_zip_cd      == Str(<<"z","i","p","_","c","d">>)
n_Rate        == Str(<<"R","a","t","e">>)
n_plan        == Str(<<"p","l","a","n">>)
n_churned     == Str(<<"c","h","u","r","n","e","d">>)
n_signup_date == Str(<<"s","i","g","n","u","p","_","d","a","t","e">>)
n_y           == Str(<<"y">>)
n_z           == Str(<<"z">>)
n_when        == Str(<<"w","h","e","n">>)

\* paths below the data directory
p_a_t_csv   == <<Str(<<"a">>), Str(<<"t",".","c","s","v">>)>>
p_b_t_csv   == <<Str(<<"b">>), Str(<<"t",".","c","s","v">>)>>
p_T_CSV     == <<Str(<<"T",".","C","S","V">>)>>
p_s_parquet == <<Str(<<"s",".","p","a","r","q","u","e","t">>)>>
p_n_txt     == <<Str(<<"n",".","t","x","t">>)>>
p_d_csv     == <<Str(<<"d",".","c","s","v">>)>>

\* every sequence over S of length at most n
SeqsUpTo(S, n) == UNION {[1..k -> S] : k \in 0..n}

\* the frames of one or of two columns with different names, all of `rows` rows
Frames(columns, rows) ==
    {Frame(rows, <<c>>) : c \in columns}
    \cup {Frame(rows, <<c, d>>) : c \in columns, d \in columns}

WellFormed(entry) ==
    \A i, j \in 1..Len(entry.columns) :
        i # j => entry.columns[i].name # entry.columns[j].name

\* The users file: user_id all different integers, signup_date ISO dates,
\* plan three values that repeat, churned 0/1, nothing missing.
UsersCsv ==
    Frame(6, << Column(n_user_id, "integer", <<0, 1, 2, 3, 4, 5>>),
                Column(n_signup_date, "date", <<0, 1, 2, 3, 4, 5>>),
                Column(n_plan, "text", <<0, 1, 2, 0, 1, 2>>),
                Column(n_churned, "integer", <<0, 1, 0, 0, 1, 0>>) >>)

\* columns of the directory-level frames: full, two-thirds and one-third
\* covered, and one that is no candidate by its role
DirCsvColumns ==
    { Column(n_plan, "text", <<0, 1, 1>>),
      Column(n_z, "decimal", <<0, 1, NA>>) }
DirTypedColumns ==
    { Column(n_plan, "category", <<0, 1, 1>>),
      Column(n_y, "float64", <<0, NA, NA>>),
      Column(n_when, "datetime64[ns]", <<0, 1, 2>>) }

DirCsvFrames == {f \in Frames(DirCsvColumns, 3) : WellFormed(f)}
DirTypedFrames == {f \in Frames(DirTypedColumns, 3) : WellFormed(f)}

\* what a path of the directory-level specification can hold
DirContents(path) ==
    IF path = p_d_csv THEN {Directory}
    ELSE IF path = p_n_txt THEN {Unreadable("not a table")}
    ELSE IF path = p_s_parquet
    THEN DirTypedFrames \cup {Unreadable("ArrowInvalid")}
    ELSE DirCsvFrames \cup {UsersCsv, Unreadable("ParserError")}

DirPaths == {p_a_t_csv, p_b_t_csv, p_T_CSV, p_s_parquet, p_n_txt, p_d_csv}

\* every way to fill the given paths
RECURSIVE DirectoriesOver(_)
DirectoriesOver(paths) ==
    IF paths = {} THEN {<<>>}
    ELSE LET p == CHOOSE q \in paths : TRUE
         IN  {(p :> content) @@ rest :
                 content \in DirContents(p), rest \in DirectoriesOver(paths \ {p})}

\* the directories of at most MaxFiles entries
Directories ==
    UNION {DirectoriesOver(paths) :
              paths \in {ps \in SUBSET DirPaths : Cardinality(ps) <= MaxFiles}}

\* main has parsed its arguments and run nothing yet
Start ==
    /\ pc = "start"
    /\ table_paths = <<>>
    /\ idx = 0
    /\ table_summaries = <<>>
    /\ modeling_candidates = <<>>
    /\ stderr = <<>>
    /\ stdout = <<>>
    /\ output_file = <<>>
    /\ json_file = <<>>
    /\ exit_code = NotReturned

\* Directory level: several files, few kinds of column (none of them an
\* object column with missing cells, the one place the pandas version shows).
Init ==
    /\ Start
    /\ \/ dir_exists = FALSE /\ fs = <<>>
       \/ dir_exists = TRUE /\ fs \in Directories
    /\ pandas_major = 2
    /\ args \in [target : {NoTarget, Target(n_churned)},
                 output : BOOLEAN, json_output : BOOLEAN]

Spec == Init /\ [][Next]_vars

\* Column level: one file of one column, every name, type and content.
ColumnNames == {n_user_id, n_ID, n_zip_cd, n_Rate, n_plan}

CsvColumns ==
    UNION { {Column(name, kind, values) :
                name \in ColumnNames, values \in SeqsUpTo(CsvCellsOf(kind), MaxRows)} :
            kind \in CsvKinds }
TypedColumns ==
    UNION { {Column(name, d, values) :
                name \in ColumnNames, values \in SeqsUpTo(CellsOf(d), MaxRows)} :
            d \in Dtypes }

OneColumnFiles ==
    {[p \in {p_T_CSV} |-> Frame(Len(c.values), <<c>>)] : c \in CsvColumns}
    \cup {[p \in {p_s_parquet} |-> Frame(Len(c.values), <<c>>)] : c \in TypedColumns}
    \cup {[p \in {p_T_CSV} |-> Unreadable("ParserError")]}
    \cup {[p \in {p_n_txt} |-> Unreadable("not a table")]}

InitColumn ==
    /\ Start
    /\ \/ dir_exists = FALSE /\ fs = <<>>
       \/ dir_exists = TRUE /\ fs \in OneColumnFiles
    /\ pandas_major \in PandasMajors
    /\ args \in [target : {NoTarget, Target(n_user_id)},
                 output : {FALSE}, json_output : {FALSE}]

SpecColumn == InitColumn /\ [][Next]_vars

-----------------------------------------------------------------------------
(* Properties *)

\* the frame summarize_table worked on for a summarized path
LoadedFrame(path) == load_table(path, fs[path]).df

\* every (summary, column) position produced so far
SummarizedColumns ==
    UNION {{<<t, i>> : i \in 1..Len(table_summaries[t].column_summaries)} :
              t \in 1..Len(table_summaries)}

SourceColumn(pos) == LoadedFrame(table_summaries[pos[1]].file_path).columns[pos[2]]
SummaryOf(pos) == table_summaries[pos[1]].column_summaries[pos[2]]
KeyOf(pos) == CandidateKey(table_summaries[pos[1]], SummaryOf(pos))

HasNote(col, note) == \E n \in 1..Len(col.notes) : col.notes[n] = note

Returned(code) == pc = "done" /\ exit_code = code

\* the rows of the candidate table that was printed
PrintedCandidates == stdout[1].candidates
PrintedKeys == {PrintedCandidates[r].name : r \in 1..Len(PrintedCandidates)}

\* C1: a column whose name equals the supplied target exactly has role
\* "target" and no notes, whatever its name looks like and whatever its dtype,
\* and the printed candidate list has no row for it.
TargetColumnGetsTargetRole ==
    \A pos \in SummarizedColumns :
        (Truthy(args.target) /\ SourceColumn(pos).name = args.target.name) =>
            /\ SummaryOf(pos).role = "target"
            /\ SummaryOf(pos).notes = <<>>
            /\ Returned(0) => KeyOf(pos) \notin PrintedKeys

\* C1 witness: a fully covered int64 column named user_id, the designated
\* target, was summarized as target and the report was printed.
TargetOverridesIdWitness ==
    /\ Returned(0)
    /\ \E pos \in SummarizedColumns :
          /\ SourceColumn(pos).name = n_user_id
          /\ SourceColumn(pos).dtype = "int64"
          /\ Len(SourceColumn(pos).values) = 3
          /\ args.target = Target(n_user_id)
          /\ SummaryOf(pos).role = "target"

\* a printed row stands for a summarized column that qualifies
RowHasSource(row) ==
    \E pos \in SummarizedColumns :
        /\ KeyOf(pos) = row.name
        /\ Qualifies(SummaryOf(pos))
        /\ CandidateInfo(SummaryOf(pos)) =
              [non_null_pct |-> row.non_null_pct,
               unique_values |-> row.unique_values, role |-> row.role]

\* C2: the printed candidate rows are in descending coverage order, equal
\* coverage in ascending order of the key "<file-name>::<column-name>"; each
\* row has coverage >= 60 and a role among numeric, categorical, binary, and
\* stands for a summarized column with that role and coverage.
CandidatesSortedAndEligible ==
    Returned(0) =>
        /\ \A r \in 1..Len(PrintedCandidates) :
              /\ PrintedCandidates[r].non_null_pct.num
                    >= 60 * PrintedCandidates[r].non_null_pct.den
              /\ PrintedCandidates[r].role \in {ROLE_NUMERIC, ROLE_CATEGORICAL, ROLE_BINARY}
              /\ PrintedCandidates[r].role \notin {"id", "target", "datetime", ROLE_UNKNOWN}
              /\ RowHasSource(PrintedCandidates[r])
        /\ \A q, r \in 1..Len(PrintedCandidates) :
              q < r =>
                 LET a == PrintedCandidates[q]
                     b == PrintedCandidates[r]
                 IN  \/ a.non_null_pct.num * b.non_null_pct.den
                           > b.non_null_pct.num * a.non_null_pct.den
                     \/ /\ a.non_null_pct.num * b.non_null_pct.den
                              = b.non_null_pct.num * a.non_null_pct.den
                        /\ StrLess(a.name, b.name)

\* C2 witness: a printed list of three rows, the first two of equal
\* coverage and the third of lower coverage, with a summarized column left out.
SortedCandidatesWitness ==
    /\ Returned(0)
    /\ Len(PrintedCandidates) = 3
    /\ PrintedCandidates[1].non_null_pct = PrintedCandidates[2].non_null_pct
    /\ PctLess(PrintedCandidates[3].non_null_pct, PrintedCandidates[2].non_null_pct)
    /\ \E pos \in SummarizedColumns : ~Qualifies(SummaryOf(pos))

\* the number of summarized columns that qualify
QualifyingColumns == {pos \in SummarizedColumns : Qualifies(SummaryOf(pos))}

\* C3: every qualifying column of every summarized file has a row of its
\* own in the candidate list: the keys of different (file, column) pairs
\* differ and the list has as many rows as there are qualifying pairs.
EachQualifyingColumnListed ==
    Returned(0) =>
        /\ \A pos, other \in QualifyingColumns :
              pos # other => KeyOf(pos) # KeyOf(other)
        /\ Len(PrintedCandidates) = Cardinality(QualifyingColumns)

\* the paths the loop has been through, and whether summarize_table raises
ProcessedPaths == SubSeq(table_paths, 1, idx - 1)
Raises(path) == load_table(path, fs[path]).raised
Succeeds(path) == ~Raises(path)

\* the lines of stderr written by the except clause
IsLoadWarning(line) == line.text = "Falha ao ler"

\* C4: the files are taken in sorted path order; a file whose load or
\* summary raises gets one warning on stderr with its path and the message,
\* the loop goes on to the end of the list, the summaries are exactly those
\* of the files that did not raise, in sorted order, and the Markdown tables,
\* the JSON entries and the candidate rows all come from those summaries.
PerFileFailureTolerated ==
    pc \in {"loop", "done"} /\ dir_exists /\ table_paths # <<>> =>
        LET succeeded == SelectSeq(ProcessedPaths, Succeeds)
            failed    == SelectSeq(ProcessedPaths, Raises)
        IN  /\ \A i, j \in 1..Len(table_paths) :
                  i < j => PathLess(table_paths[i], table_paths[j])
            /\ [t \in 1..Len(table_summaries) |-> table_summaries[t].file_path]
                  = succeeded
            /\ SelectSeq(stderr, IsLoadWarning)
                  = [f \in 1..Len(failed) |->
                        [text |-> "Falha ao ler", path |-> failed[f],
                         exc |-> fs[failed[f]].err]]
            /\ pc = "done" => idx = Len(table_paths) + 1
            /\ Returned(0) =>
                  /\ [t \in 1..Len(stdout[1].tables) |-> stdout[1].tables[t].name]
                        = [t \in 1..Len(succeeded) |-> PathName(succeeded[t])]
                  /\ \A r \in 1..Len(PrintedCandidates) :
                        RowHasSource(PrintedCandidates[r])
                  /\ args.json_output =>
                        [t \in 1..Len(json_file[1]) |-> json_file[1][t].file_path]
                           = succeeded

\* C4 witness: the first file raised, a later file was summarized, and the
\* report and the JSON file were written.
FailureThenSuccessWitness ==
    /\ Returned(0)
    /\ args.json_output
    /\ Len(table_paths) = 2
    /\ Raises(table_paths[1])
    /\ Len(table_summaries) = 1
    /\ table_summaries[1].file_path = table_paths[2]
    /\ Len(stderr) = 1

\* the files the scan accepts: regular files with a supported extension
SupportedFiles ==
    {p \in DOMAIN fs :
        fs[p].kind = "file" /\ Lower(Suffix(p)) \in SUPPORTED_EXTENSIONS}

\* C5: with the data directory present main returns 1 exactly when no
\* supported file is found or every found file fails, and 0 otherwise; when it
\* returns 1 its last act was a warning on stderr and nothing was written to
\* stdout, to the --output file or to the --json-output file.
ExitCodeOneIffNothingSummarized ==
    pc = "done" /\ dir_exists =>
        /\ exit_code \in {0, 1}
        /\ exit_code = 1 <=> \A p \in SupportedFiles : Raises(p)
        /\ exit_code = 1 =>
              /\ Len(stderr) > 0
              /\ stderr[Len(stderr)] \in {NoFilesWarning, NoSummariesWarning}
              /\ stdout = <<>>
              /\ output_file = <<>>
              /\ json_file = <<>>
        /\ exit_code = 0 =>
              /\ Len(table_summaries) > 0
              /\ Len(stdout) = 1

\* C5 witness: both output files were asked for, two supported files were
\* found, both failed, and main returned 1.
AllFilesFailedWitness ==
    /\ Returned(1)
    /\ args.output /\ args.json_output
    /\ Cardinality(SupportedFiles) = 2
    /\ Len(stderr) = 3

\* the regular files of the directory whose extension is not supported
UnsupportedFiles ==
    {p \in DOMAIN fs :
        fs[p].kind = "file" /\ Lower(Suffix(p)) \notin SUPPORTED_EXTENSIONS}

\* C6 as stated: when main has returned, every file with an unsupported
\* extension has a warning on stderr (one naming it, or the warning that no
\* supported file was found) and no TableSummary.
UnsupportedFileWarned ==
    pc = "done" /\ dir_exists =>
        \A p \in UnsupportedFiles :
            /\ \E w \in 1..Len(stderr) :
                  stderr[w].path = p \/ stderr[w] = NoFilesWarning
            /\ \A t \in 1..Len(table_summaries) : table_summaries[t].file_path # p

\* C6 amended: a file with an unsupported extension is left out by the scan
\* without a warning of its own: it is not in table_paths, it has no
\* TableSummary, and no line of stderr names it.
UnsupportedFileSkippedSilently ==
    pc \in {"loop", "done"} /\ dir_exists =>
        \A p \in UnsupportedFiles :
            /\ \A i \in 1..Len(table_paths) : table_paths[i] # p
            /\ \A t \in 1..Len(table_summaries) : table_summaries[t].file_path # p
            /\ \A w \in 1..Len(stderr) : stderr[w].path # p

\* C6 witness: a .txt file beside a supported file, main returned 0 and
\* stderr is empty.
UnsupportedBesideSupportedWitness ==
    /\ Returned(0)
    /\ p_n_txt \in UnsupportedFiles
    /\ Len(table_summaries) = 1
    /\ stderr = <<>>

\* a column of a numeric dtype (not bool) with exactly two distinct values
\* among its non-missing cells
TwoValuedNumeric(column) ==
    /\ column.dtype \in {"int64", "float64"}
    /\ Cardinality({column.values[i] : i \in 1..Len(column.values)} \ {NA}) = 2

\* C7 as stated: every numeric column with exactly 2 distinct non-missing
\* values has the binary note and not the constant-column note, whatever its name.
TwoValuedNumericAlwaysBinaryNote ==
    \A pos \in SummarizedColumns :
        TwoValuedNumeric(SourceColumn(pos)) =>
            /\ HasNote(SummaryOf(pos), NOTE_BINARY)
            /\ ~HasNote(SummaryOf(pos), NOTE_CONSTANT)

\* the name tests that come before the numeric branch
IsDesignatedTarget(column) == Truthy(args.target) /\ column.name = args.target.name
HasIdentifierName(column) ==
    LET lowered == Lower(column.name)
    IN  \/ \E i \in 1..Len(lowered) - 1 : lowered[i] = 105 /\ lowered[i + 1] = 100
        \/ /\ Len(lowered) >= 3
           /\ lowered[Len(lowered) - 2] = 95
           /\ lowered[Len(lowered) - 1] = 99
           /\ lowered[Len(lowered)] = 100

\* C7 amended: a numeric column with exactly 2 distinct non-missing values
\* that is not the designated target and whose lowercased name neither
\* contains "id" nor ends in "_cd" has role numeric with the binary note and
\* without the constant-column note (names with "percent" or "rate" included);
\* the target and the identifier-named columns have neither note.
TwoValuedNumericBinaryNoteUnlessNamed ==
    \A pos \in SummarizedColumns :
        TwoValuedNumeric(SourceColumn(pos)) =>
            IF IsDesignatedTarget(SourceColumn(pos)) \/ HasIdentifierName(SourceColumn(pos))
            THEN /\ SummaryOf(pos).role \in {"target", "id"}
                 /\ ~HasNote(SummaryOf(pos), NOTE_BINARY)
                 /\ ~HasNote(SummaryOf(pos), NOTE_CONSTANT)
            ELSE /\ SummaryOf(pos).role = ROLE_NUMERIC
                 /\ HasNote(SummaryOf(pos), NOTE_BINARY)
                 /\ ~HasNote(SummaryOf(pos), NOTE_CONSTANT)

\* C7 witness: a float64 column named Rate with two distinct values and a
\* missing cell carries the binary note and the percentage note.
BinaryNoteWitness ==
    \E pos \in SummarizedColumns :
        /\ SourceColumn(pos).name = n_Rate
        /\ SourceColumn(pos).dtype = "float64"
        /\ SourceColumn(pos).values = <<0, NA, 1>>
        /\ SummaryOf(pos).notes = <<NOTE_BINARY, NOTE_PERCENT>>

\* C8: a column of dtype bool that is not the designated target and has no
\* identifier name gets role binary and no notes.
BoolColumnGetsBinaryRole ==
    \A pos \in SummarizedColumns :
        (/\ SourceColumn(pos).dtype = "bool"
         /\ ~IsDesignatedTarget(SourceColumn(pos))
         /\ ~HasIdentifierName(SourceColumn(pos))) =>
            /\ SummaryOf(pos).role = ROLE_BINARY
            /\ SummaryOf(pos).notes = <<>>

\* C9: a column of a table without rows has coverage 0.0 (a well-defined
\* number: nothing was divided by zero), distinct count 0, no examples, and
\* no high-cardinality note.
EmptyTableColumnsAreZero ==
    \A pos \in SummarizedColumns :
        table_summaries[pos[1]].row_count = 0 =>
            /\ SummaryOf(pos).non_null_pct.den > 0
            /\ SummaryOf(pos).non_null_pct.num = 0
            /\ SummaryOf(pos).unique_values = 0
            /\ SummaryOf(pos).example_values = <<>>
            /\ ~HasNote(SummaryOf(pos), NOTE_HIGH_CARD)

\* C9 witness: a file without rows was summarized, its column was taken as
\* categorical, and the report was printed.
EmptyTableWitness ==
    /\ Returned(0)
    /\ \E pos \in SummarizedColumns :
          /\ table_summaries[pos[1]].row_count = 0
          /\ Len(SourceColumn(pos).values) = 0
          /\ SummaryOf(pos).role = ROLE_CATEGORICAL

\* the summaries of the users file, run with --target churned
UsersSummaries ==
    {t \in 1..Len(table_summaries) :
        /\ fs[table_summaries[t].file_path] = UsersCsv
        /\ args.target = Target(n_churned)}

RolesOf(t) ==
    [i \in 1..Len(table_summaries[t].column_summaries) |->
        <<table_summaries[t].column_summaries[i].name,
          table_summaries[t].column_summaries[i].role>>]

UsersKey(t, name) ==
    PathName(table_summaries[t].file_path) \o <<58, 58>> \o name

\* C10 as stated: the users CSV run with target churned gives user_id -> id,
\* signup_date -> datetime, plan -> categorical, churned -> target; the
\* candidate list has plan and has neither churned nor user_id.
UsersScenarioAsStated ==
    \A t \in UsersSummaries :
        /\ RolesOf(t) = << <<n_user_id, "id">>, <<n_signup_date, "datetime">>,
                           <<n_plan, ROLE_CATEGORICAL>>, <<n_churned, "target">> >>
        /\ Returned(0) =>
              /\ UsersKey(t, n_plan) \in PrintedKeys
              /\ UsersKey(t, n_churned) \notin PrintedKeys
              /\ UsersKey(t, n_user_id) \notin PrintedKeys

\* C10 amended: the users CSV run with target churned gives user_id -> id,
\* signup_date -> categorical (read_csv leaves ISO date text as object),
\* plan -> categorical, churned -> target; the candidate list has plan and
\* signup_date and has neither churned nor user_id.
UsersScenarioDatesStayText ==
    \A t \in UsersSummaries :
        /\ RolesOf(t) = << <<n_user_id, "id">>, <<n_signup_date, ROLE_CATEGORICAL>>,
                           <<n_plan, ROLE_CATEGORICAL>>, <<n_churned, "target">> >>
        /\ Returned(0) =>
              /\ UsersKey(t, n_plan) \in PrintedKeys
              /\ UsersKey(t, n_signup_date) \in PrintedKeys
              /\ UsersKey(t, n_churned) \notin PrintedKeys
              /\ UsersKey(t, n_user_id) \notin PrintedKeys

\* C10 witness: the users file was summarized with target churned and the
\* report was printed.
UsersScenarioWitness ==
    /\ Returned(0)
    /\ UsersSummaries # {}
    /\ Len(PrintedCandidates) >= 2

====
